---- MODULE Spec2Model ----
(***************************************************************************)
(* A model of wordle.cpp: the word normaliser (validate), the letter       *)
(* frequency scorer (score), the constraint filter (solve) and the         *)
(* filter / rank / best-start-word pipeline of main.                       *)
(*                                                                         *)
(* Characters are their ASCII codes; a std::string or std::string_view is  *)
(* a sequence of codes (1-based here, 0-based in the source).              *)
(***************************************************************************)
EXTENDS Integers, Sequences, FiniteSets, Bags, TLC

VARIABLES
  pc,                \* position in the program
  raw,               \* validate: the string as it was passed in
  word,              \* validate: the std::string& word, changed in place
  accepted,          \* validate: the value returned
  word_data,         \* score: the argument
  value,             \* score: the value returned
  cs,                \* main: the constraint list
  words,             \* main: the corpus words (load_words_2)
  freqs,             \* main: the corpus frequencies, parallel to words
  dictionary_words,  \* main: the spelling dictionary
  dict,              \* main: std::unordered_set of the dictionary
  freq_words,        \* main: std::unordered_map word -> frequency
  legal_words,       \* main: the vector filtered and sorted in place
  matched,           \* legal_words as it left solve
  candidates,        \* legal_words as it left the prune / sort / unique step
  by_letter,         \* legal_words as it left the sort by letter frequency
  by_freq,           \* legal_words as it left the sort by word frequency
  pending,           \* std::reduce: the operands not yet combined
  best_word,         \* main: the best start word
  reads,             \* the indices at which solve subscripted a word
  ub                 \* the undefined operations executed so far

vars == <<pc, raw, word, accepted, word_data, value, cs, words, freqs,
          dictionary_words, dict, freq_words, legal_words, matched,
          candidates, by_letter, by_freq, pending, best_word, reads, ub>>

(***************************************************************************)
(* Bounds of the model and the one size the program fixes.                 *)
(***************************************************************************)
WordLen == 5

MaxRawLen == 7

MaxCorpus == 3

MaxSolveCorpus == 2

MaxCs == 2

Range(s) == {s[i] : i \in 1..Len(s)}

RECURSIVE SeqsUpTo(_, _)
SeqsUpTo(S, n) ==
  IF n = 0 THEN {<<>>}
  ELSE LET shorter == SeqsUpTo(S, n - 1)
       IN  shorter \cup {Append(s, x) : s \in {t \in shorter : Len(t) = n - 1}, x \in S}

(***************************************************************************)
(* <cctype> in the "C" locale, on ASCII.                                   *)
(***************************************************************************)
isspace(c) == c \in 9..13 \cup {32}

isupper(c) == c \in 65..90

isalpha(c) == c \in 65..90 \cup 97..122

tolower(c) == IF isupper(c) THEN c + 32 ELSE c

(***************************************************************************)
(* validate: trims trailing, then leading white space, rejects a length    *)
(* other than 5, then lowercases character by character and rejects at     *)
(* the first non-alphabetic one (the characters before it stay lowercased).*)
(***************************************************************************)
RECURSIVE TrimBack(_)
TrimBack(w) ==
  IF w # <<>> /\ isspace(w[Len(w)]) THEN TrimBack(SubSeq(w, 1, Len(w) - 1)) ELSE w

RECURSIVE TrimFront(_)
TrimFront(w) ==
  IF w # <<>> /\ isspace(Head(w)) THEN TrimFront(Tail(w)) ELSE w

RECURSIVE LowerLoop(_, _)
LowerLoop(w, i) ==
  IF i > Len(w) THEN [ok |-> TRUE, word |-> w]
  ELSE IF ~isalpha(w[i]) THEN [ok |-> FALSE, word |-> w]
  ELSE LowerLoop([w EXCEPT ![i] = tolower(w[i])], i + 1)

validate_no_front_trim(w) ==
  LET t == TrimBack(w)
  IN  IF Len(t) # WordLen THEN [ok |-> FALSE, word |-> t] ELSE LowerLoop(t, 1)

validate(w) ==
  LET t == TrimFront(TrimBack(w))
  IN  IF Len(t) # WordLen THEN [ok |-> FALSE, word |-> t] ELSE LowerLoop(t, 1)

(***************************************************************************)
(* std::sort / std::ranges::sort: the result is a permutation ordered by   *)
(* the comparator; the order of equivalent elements is unspecified, so     *)
(* every such arrangement is an outcome.  lt is the comparator as a set of *)
(* pairs <<x, y>> with comp(x, y).                                         *)
(***************************************************************************)
InsertOutcomes(x, s, lt) ==
  {SubSeq(s, 1, k) \o <<x>> \o SubSeq(s, k + 1, Len(s)) :
     k \in {j \in 0..Len(s) : /\ \A i \in 1..j : <<x, s[i]>> \notin lt
                              /\ \A i \in (j + 1)..Len(s) : <<s[i], x>> \notin lt}}

RECURSIVE SortOutcomes(_, _)
SortOutcomes(s, lt) ==
  IF s = <<>> THEN {<<>>}
  ELSE UNION {InsertOutcomes(s[Len(s)], t, lt) :
                t \in SortOutcomes(SubSeq(s, 1, Len(s) - 1), lt)}

\* std::unique: of each run of equal neighbours the first is kept
RECURSIVE Unique(_)
Unique(s) ==
  IF Len(s) <= 1 THEN s
  ELSE IF s[1] = s[2] THEN Unique(Tail(s))
  ELSE <<s[1]>> \o Unique(Tail(s))

(***************************************************************************)
(* letter_scores and score.                                                *)
(***************************************************************************)
letter_scores ==
  << [score |-> 12000, letters |-> <<101>>],                      \* "e"
     [score |-> 9000,  letters |-> <<116>>],                      \* "t"
     [score |-> 8000,  letters |-> <<97, 105, 110, 111, 115>>],   \* "ainos"
     [score |-> 6400,  letters |-> <<104>>],                      \* "h"
     [score |-> 6200,  letters |-> <<114>>],                      \* "r"
     [score |-> 4400,  letters |-> <<100>>],                      \* "d"
     [score |-> 4000,  letters |-> <<108>>],                      \* "l"
     [score |-> 3400,  letters |-> <<117>>],                      \* "u"
     [score |-> 3000,  letters |-> <<99, 109>>],                  \* "cm"
     [score |-> 2500,  letters |-> <<102>>],                      \* "f"
     [score |-> 2000,  letters |-> <<119, 121>>],                 \* "wy"
     [score |-> 1700,  letters |-> <<103, 112>>],                 \* "gp"
     [score |-> 1600,  letters |-> <<98>>],                       \* "b"
     [score |-> 1200,  letters |-> <<118>>],                      \* "v"
     [score |-> 800,   letters |-> <<107>>],                      \* "k"
     [score |-> 500,   letters |-> <<113>>],                      \* "q"
     [score |-> 400,   letters |-> <<106, 120>>],                 \* "jx"
     [score |-> 200,   letters |-> <<122>>] >>                    \* "z"

CharLess(S) == {p \in S \X S : p[1] < p[2]}

\* the inner loop of score: the first group holding c gives its score
RECURSIVE TableLoop(_, _)
TableLoop(c, i) ==
  IF i > Len(letter_scores) THEN 0
  ELSE IF c \in Range(letter_scores[i].letters) THEN letter_scores[i].score
  ELSE TableLoop(c, i + 1)

RECURSIVE SumLoop(_)
SumLoop(w) == IF w = <<>> THEN 0 ELSE TableLoop(Head(w), 1) + SumLoop(Tail(w))

SortedChars(w) == CHOOSE s \in SortOutcomes(w, CharLess(Range(w))) : TRUE

score_with_repeats(w) == SumLoop(SortedChars(w))

score(w) == SumLoop(Unique(SortedChars(w)))

(***************************************************************************)
(* constraint and solve.                                                   *)
(***************************************************************************)
NotPresent(l) ==
  [kind |-> "not_present", letter |-> l, position |-> <<>>, exclude_positions |-> <<>>]

Present(l, ex) ==
  [kind |-> "present", letter |-> l, position |-> <<>>, exclude_positions |-> ex]

Perfect(l, p) ==
  [kind |-> "perfect", letter |-> l, position |-> <<p>>, exclude_positions |-> <<>>]

\* std::string::contains(char)
Contains(w, c) == \E i \in 1..Len(w) : w[i] = c

\* w[pos] of a const std::string: the character, the terminating '\0' at
\* pos = size(), and beyond that whatever the memory holds (g)
At(w, pos, g) ==
  IF pos \in 0..(Len(w) - 1) THEN w[pos + 1]
  ELSE IF pos = Len(w) THEN 0
  ELSE g

RECURSIVE ExcludeLoop(_, _, _, _, _)
ExcludeLoop(w, letter, ex, fail, g) ==
  IF ex = <<>> THEN fail
  ELSE ExcludeLoop(w, letter, Tail(ex),
                   IF At(w, Head(ex), g) = letter THEN TRUE ELSE fail, g)

\* a switch that assigns fail instead of only raising it
SwitchLastWins(c, w, fail, g) ==
  CASE c.kind = "not_present" -> Contains(w, c.letter)
    [] c.kind = "present" ->
         IF ~Contains(w, c.letter) THEN TRUE
         ELSE ExcludeLoop(w, c.letter, c.exclude_positions, FALSE, g)
    [] c.kind = "perfect" -> At(w, c.position[1], g) # c.letter

\* the switch of solve: fail after constraint c, given fail before it
Switch(c, w, fail, g) ==
  CASE c.kind = "not_present" -> IF Contains(w, c.letter) THEN TRUE ELSE fail
    [] c.kind = "present" ->
         IF ~Contains(w, c.letter) THEN TRUE
         ELSE ExcludeLoop(w, c.letter, c.exclude_positions, fail, g)
    [] c.kind = "perfect" ->
         IF At(w, c.position[1], g) # c.letter THEN TRUE ELSE fail

\* a loop in which only the last constraint decides
ConstraintLoopLastOnly(k, w, fail, g) ==
  IF k = <<>> THEN fail ELSE Switch(k[Len(k)], w, FALSE, g)

RECURSIVE ConstraintLoop(_, _, _, _)
ConstraintLoop(k, w, fail, g) ==
  IF k = <<>> THEN fail
  ELSE ConstraintLoop(Tail(k), w, Switch(Head(k), w, fail, g), g)

RECURSIVE solve(_, _, _)
solve(k, ws, g) ==
  IF ws = <<>> THEN <<>>
  ELSE IF ~ConstraintLoop(k, Head(ws), FALSE, g)
       THEN <<Head(ws)>> \o solve(k, Tail(ws), g)
       ELSE solve(k, Tail(ws), g)

\* the indices at which solve subscripts a word
IndicesRead(k, ws) ==
  {c.position[1] : c \in {d \in Range(k) : d.kind = "perfect" /\ ws # <<>>}}
  \cup UNION {Range(c.exclude_positions) :
                c \in {d \in Range(k) :
                         d.kind = "present" /\ \E i \in 1..Len(ws) : Contains(ws[i], d.letter)}}

(***************************************************************************)
(* main: the indexes built before solve, and the steps after it.           *)
(***************************************************************************)
\* std::unordered_map::emplace keeps the entry a key already has
RECURSIVE EmplaceLoop(_, _, _, _)
EmplaceLoop(m, ws, fs, i) ==
  IF i > Len(ws) THEN m
  ELSE IF ws[i] \in DOMAIN m THEN EmplaceLoop(m, ws, fs, i + 1)
  ELSE EmplaceLoop(m @@ (ws[i] :> fs[i]), ws, fs, i + 1)

\* std::unordered_map::operator[]: a missing key is value-initialised to 0
Lookup(m, k) == IF k \in DOMAIN m THEN m[k] ELSE 0

RECURSIVE LexLess(_, _)
LexLess(a, b) ==
  IF a = <<>> THEN b # <<>>
  ELSE IF b = <<>> THEN FALSE
  ELSE IF a[1] # b[1] THEN a[1] < b[1]
  ELSE LexLess(Tail(a), Tail(b))

\* the erase loop over legal_words
RECURSIVE EraseLoop(_, _)
EraseLoop(lw, d) ==
  IF lw = <<>> THEN <<>>
  ELSE IF Head(lw) \notin d THEN EraseLoop(Tail(lw), d)
  ELSE <<Head(lw)>> \o EraseLoop(Tail(lw), d)

PruneOutcomesNoUnique(lw, d) ==
  LET kept == EraseLoop(lw, d)
  IN  SortOutcomes(kept, {p \in Range(kept) \X Range(kept) : LexLess(p[1], p[2])})

\* erase, std::ranges::sort, std::ranges::unique
PruneOutcomes(lw, d) ==
  LET kept == EraseLoop(lw, d)
  IN  {Unique(s) :
         s \in SortOutcomes(kept, {p \in Range(kept) \X Range(kept) : LexLess(p[1], p[2])})}

RankOutcomesAscending(lw, m) ==
  SortOutcomes(lw, {p \in Range(lw) \X Range(lw) : Lookup(m, p[1]) < Lookup(m, p[2])})

\* sort with the comparator  m[r] < m[l]
RankOutcomes(lw, m) ==
  SortOutcomes(lw, {p \in Range(lw) \X Range(lw) : Lookup(m, p[2]) < Lookup(m, p[1])})

\* lines 270-274
LetterFreqWords(lw) == [w \in Range(lw) |-> score(w)]

BinaryOpLess(word1, word2) == IF score(word1) < score(word2) THEN word1 ELSE word2

\* the lambda handed to std::reduce
BinaryOp(word1, word2) == IF score(word1) > score(word2) THEN word1 ELSE word2

RECURSIVE SeqToBag(_)
SeqToBag(s) == IF s = <<>> THEN EmptyBag ELSE SetToBag({Head(s)}) (+) SeqToBag(Tail(s))

(***************************************************************************)
(* The inputs the model draws from.                                        *)
(***************************************************************************)
\* ' ', 'A', 'a', '1'
RawChars == {32, 65, 97, 49}

\* 'a', 'e', 'n', 'z'
ScoreLetters == {97, 101, 110, 122}

\* "angel", "angle", "hotel"
WordPool ==
  {<<97, 110, 103, 101, 108>>, <<97, 110, 103, 108, 101>>, <<104, 111, 116, 101, 108>>}

Freqs == {1, 2}

\* the dictionaries: every subset of the pool, one word a line, in order
DictChoices ==
  {d \in SeqsUpTo(WordPool, Cardinality(WordPool)) :
     \A i \in 1..(Len(d) - 1) : LexLess(d[i], d[i + 1])}

\* the constraint lists of the pipeline, made of three of the constraints
\* main lists: {not_present, 'h'}, {present, 'e', {}, {0, 2, 4}} and
\* {perfect, 'l', 4}
CsChoices ==
  {<<>>,
   <<NotPresent(104)>>,
   <<Present(101, <<0, 2, 4>>)>>,
   <<Perfect(108, 4)>>,
   <<NotPresent(104), Present(101, <<0, 2, 4>>), Perfect(108, 4)>>}

\* "angel", "eagle", "tulip"
SolvePool ==
  {<<97, 110, 103, 101, 108>>, <<101, 97, 103, 108, 101>>, <<116, 117, 108, 105, 112>>}

\* 'e', 'l'
SolveLetters == {101, 108}

InRangeConstraints ==
  {NotPresent(l) : l \in SolveLetters}
  \cup {Present(l, ex) : l \in SolveLetters, ex \in {<<>>, <<0>>, <<0, 2, 4>>}}
  \cup {Perfect(l, p) : l \in SolveLetters, p \in {0, 4}}

\* constraints with a position at or past the end of a word as well
RawConstraints ==
  InRangeConstraints
  \cup {Present(l, <<3, 6>>) : l \in SolveLetters}
  \cup {Perfect(l, p) : l \in SolveLetters, p \in {5, 6}}

\* what a read past the end of a word's buffer may yield: '\0', 'e'
Garbage == {0, 101}

InRange(c) ==
  /\ \A i \in 1..Len(c.position) : c.position[i] \in 0..(WordLen - 1)
  /\ \A i \in 1..Len(c.exclude_positions) : c.exclude_positions[i] \in 0..(WordLen - 1)

(***************************************************************************)
(* Initial states.                                                         *)
(***************************************************************************)
NoValidate == raw = <<>> /\ word = <<>> /\ accepted = FALSE

NoScore == word_data = <<>> /\ value = 0

NoMain ==
  /\ cs = <<>> /\ words = <<>> /\ freqs = <<>> /\ dictionary_words = <<>>
  /\ dict = {} /\ freq_words = <<>>

NoResults ==
  /\ legal_words = <<>> /\ matched = <<>> /\ candidates = <<>>
  /\ by_letter = <<>> /\ by_freq = <<>> /\ pending = EmptyBag
  /\ best_word = <<>> /\ reads = {} /\ ub = {}

\* validate called on a raw line
InitValidate ==
  /\ pc = "validate"
  /\ raw \in SeqsUpTo(RawChars, MaxRawLen)
  /\ word = raw
  /\ accepted = FALSE
  /\ NoScore /\ NoMain /\ NoResults

\* score called on a lowercase word
InitScore ==
  /\ pc = "score"
  /\ word_data \in SeqsUpTo(ScoreLetters, WordLen)
  /\ value = 0
  /\ NoValidate /\ NoMain /\ NoResults

\* solve called on a corpus and a constraint list
InitSolve ==
  /\ pc = "start"
  /\ words \in SeqsUpTo(SolvePool, MaxSolveCorpus)
  /\ freqs = [i \in 1..Len(words) |-> 1]
  /\ cs \in SeqsUpTo(RawConstraints, MaxCs)
  /\ dictionary_words = <<>>
  /\ dict = {}
  /\ freq_words = EmplaceLoop(<<>>, words, freqs, 1)
  /\ NoValidate /\ NoScore /\ NoResults

\* main after the corpus, the dictionary and the two indexes are loaded
Init ==
  /\ pc = "start"
  /\ \E corpus \in SeqsUpTo(WordPool \X Freqs, MaxCorpus) :
       /\ words = [i \in 1..Len(corpus) |-> corpus[i][1]]
       /\ freqs = [i \in 1..Len(corpus) |-> corpus[i][2]]
  /\ dictionary_words \in DictChoices
  /\ dict = Range(dictionary_words)
  /\ freq_words = EmplaceLoop(<<>>, words, freqs, 1)
  /\ cs \in CsChoices
  /\ NoValidate /\ NoScore /\ NoResults

(***************************************************************************)
(* Actions.                                                                *)
(***************************************************************************)
Validate ==
  /\ pc = "validate"
  /\ word' = validate(word).word
  /\ accepted' = validate(word).ok
  /\ pc' = "validated"
  /\ UNCHANGED <<raw, word_data, value, cs, words, freqs, dictionary_words, dict,
                 freq_words, legal_words, matched, candidates, by_letter, by_freq,
                 pending, best_word, reads, ub>>

Score ==
  /\ pc = "score"
  /\ value' = score(word_data)
  /\ pc' = "scored"
  /\ UNCHANGED <<raw, word, accepted, word_data, cs, words, freqs, dictionary_words,
                 dict, freq_words, legal_words, matched, candidates, by_letter,
                 by_freq, pending, best_word, reads, ub>>

\* line 252.  A subscript past the terminating '\0' of a word is undefined:
\* the program may crash, or go on with whatever the memory held.
Solve ==
  /\ pc = "start"
  /\ \E g \in Garbage : legal_words' = solve(cs, words, g)
  /\ matched' = legal_words'
  /\ reads' = IndicesRead(cs, words)
  /\ IF \E p \in reads' : p < 0 \/ p > WordLen
     THEN /\ ub' = ub \cup {"subscript past the end of a word"}
          /\ pc' \in {"crashed", "solved"}
     ELSE /\ ub' = ub
          /\ pc' = "solved"
  /\ UNCHANGED <<raw, word, accepted, word_data, value, cs, words, freqs,
                 dictionary_words, dict, freq_words, candidates, by_letter, by_freq,
                 pending, best_word>>

\* lines 257-266
Prune ==
  /\ pc = "solved"
  /\ legal_words' \in PruneOutcomes(legal_words, dict)
  /\ candidates' = legal_words'
  /\ pc' = "pruned"
  /\ UNCHANGED <<raw, word, accepted, word_data, value, cs, words, freqs,
                 dictionary_words, dict, freq_words, matched, by_letter, by_freq,
                 pending, best_word, reads, ub>>

\* lines 270-284; the loop that prints the first 15 entries changes nothing
RankByLetter ==
  /\ pc = "pruned"
  /\ legal_words' \in RankOutcomes(legal_words, LetterFreqWords(legal_words))
  /\ by_letter' = legal_words'
  /\ pc' = "ranked by letter"
  /\ UNCHANGED <<raw, word, accepted, word_data, value, cs, words, freqs,
                 dictionary_words, dict, freq_words, matched, candidates, by_freq,
                 pending, best_word, reads, ub>>

\* lines 288-294: the same vector, as the letter ranking left it, is sorted
\* again
RankByFreq ==
  /\ pc = "ranked by letter"
  /\ legal_words' \in RankOutcomes(legal_words, freq_words)
  /\ by_freq' = legal_words'
  /\ pc' = "ranked by freq"
  /\ UNCHANGED <<raw, word, accepted, word_data, value, cs, words, freqs,
                 dictionary_words, dict, freq_words, matched, candidates, by_letter,
                 pending, best_word, reads, ub>>

\* lines 298-299: std::reduce(words.begin() + 1, words.end(), words.front(), op).
\* Of an empty vector front() and begin() + 1 are undefined: the program may
\* crash, or go on with whatever it read.
ReduceStart ==
  /\ pc = "ranked by freq"
  /\ IF words = <<>>
     THEN /\ ub' = ub \cup {"front of an empty vector"}
          /\ pending' = EmptyBag
          /\ best_word' \in {<<>>} \cup WordPool
          /\ pc' \in {"crashed", "done"}
     ELSE /\ pending' = SeqToBag(words)
          /\ pc' = "reduce"
          /\ UNCHANGED <<best_word, ub>>
  /\ UNCHANGED <<raw, word, accepted, word_data, value, cs, words, freqs,
                 dictionary_words, dict, freq_words, legal_words, matched,
                 candidates, by_letter, by_freq, reads>>

\* std::reduce combines its operands in any order and any grouping
ReduceStep ==
  /\ pc = "reduce"
  /\ BagCardinality(pending) >= 2
  /\ \E x \in BagToSet(pending) :
       \E y \in BagToSet(pending (-) SetToBag({x})) :
         pending' = ((pending (-) SetToBag({x})) (-) SetToBag({y}))
                      (+) SetToBag({BinaryOp(x, y)})
  /\ UNCHANGED <<pc, raw, word, accepted, word_data, value, cs, words, freqs,
                 dictionary_words, dict, freq_words, legal_words, matched,
                 candidates, by_letter, by_freq, best_word, reads, ub>>

\* lines 298, 303
ReduceDone ==
  /\ pc = "reduce"
  /\ BagCardinality(pending) = 1
  /\ best_word' = CHOOSE w \in BagToSet(pending) : TRUE
  /\ pc' = "done"
  /\ UNCHANGED <<raw, word, accepted, word_data, value, cs, words, freqs,
                 dictionary_words, dict, freq_words, legal_words, matched,
                 candidates, by_letter, by_freq, pending, reads, ub>>

Next ==
  \/ Solve
  \/ Prune
  \/ RankByLetter
  \/ RankByFreq
  \/ ReduceStart
  \/ ReduceStep
  \/ ReduceDone

Spec == Init /\ [][Next]_vars

SpecSolve == InitSolve /\ [][Solve]_vars

SpecValidate == InitValidate /\ [][Validate]_vars

SpecScore == InitScore /\ [][Score]_vars

(***************************************************************************)
(* What the claims are stated with.                                        *)
(***************************************************************************)
\* the meaning of one constraint for a word, positions counted from 0
Holds(c, w) ==
  CASE c.kind = "not_present" -> \A i \in 1..Len(w) : w[i] # c.letter
    [] c.kind = "present" ->
         /\ \E i \in 1..Len(w) : w[i] = c.letter
         /\ \A p \in Range(c.exclude_positions) : w[p + 1] # c.letter
    [] c.kind = "perfect" -> w[c.position[1] + 1] = c.letter

HoldsAll(k, w) == \A i \in 1..Len(k) : Holds(k[i], w)

AllInRange(k) == \A i \in 1..Len(k) : InRange(k[i])

RECURSIVE Keep(_, _)
Keep(ws, k) ==
  IF ws = <<>> THEN <<>>
  ELSE IF HoldsAll(k, Head(ws)) THEN <<Head(ws)>> \o Keep(Tail(ws), k)
  ELSE Keep(Tail(ws), k)

StrictlyIncreasing(s) == \A i \in 1..(Len(s) - 1) : LexLess(s[i], s[i + 1])

IsPermutation(a, b) == SeqToBag(a) = SeqToBag(b)

NonIncreasing(s, Key(_)) == \A i \in 1..(Len(s) - 1) : Key(s[i]) >= Key(s[i + 1])

StoredFreq(w) == IF w \in DOMAIN freq_words THEN freq_words[w] ELSE 0

PosIn(s, w) == CHOOSE i \in 1..Len(s) : s[i] = w

\* equal keys keep the order they have in the candidate list
KeepsTieOrder(ranked, Key(_)) ==
  \A i, j \in 1..Len(candidates) :
    (i < j /\ Key(candidates[i]) = Key(candidates[j]))
      => PosIn(ranked, candidates[i]) < PosIn(ranked, candidates[j])

MaxScore == CHOOSE m \in {score(words[i]) : i \in 1..Len(words)} :
              \A i \in 1..Len(words) : score(words[i]) <= m

FirstOfMaxScore ==
  words[CHOOSE i \in 1..Len(words) :
          /\ score(words[i]) = MaxScore
          /\ \A j \in 1..(i - 1) : score(words[j]) # MaxScore]

\* the table weight of a letter: the score of the group that holds it
WeightOf(c) ==
  IF \E i \in 1..Len(letter_scores) : c \in Range(letter_scores[i].letters)
  THEN letter_scores[CHOOSE i \in 1..Len(letter_scores) :
                       c \in Range(letter_scores[i].letters)].score
  ELSE 0

RECURSIVE WeightSum(_)
WeightSum(S) ==
  IF S = {} THEN 0
  ELSE LET c == CHOOSE x \in S : TRUE IN WeightOf(c) + WeightSum(S \ {c})

\* the text between the first and the last character that is not white space
Trimmed(r) ==
  LET ns == {i \in 1..Len(r) : ~isspace(r[i])}
  IN  IF ns = {} THEN <<>>
      ELSE SubSeq(r, CHOOSE i \in ns : \A j \in ns : i <= j,
                     CHOOSE i \in ns : \A j \in ns : j <= i)

Lowered(r) == [i \in 1..Len(r) |-> IF r[i] \in 65..90 THEN r[i] + 32 ELSE r[i]]

\* the candidate filter as one function: solve, then prune / sort / unique
Filter(ws, k, d) == CHOOSE s \in PruneOutcomes(solve(k, ws, 0), d) : TRUE

AppendChoices == InRangeConstraints \cup UNION {Range(k) : k \in CsChoices}

(***************************************************************************)
(* The claims.                                                             *)
(***************************************************************************)
\* C1: with in-range positions solve returns exactly the corpus words for
\* which every constraint holds, in corpus order and with repeats kept; an
\* empty constraint list returns the corpus unchanged.
C1_SolveIsTheConjunction ==
  (pc = "solved" /\ AllInRange(cs))
    => /\ legal_words = Keep(words, cs)
       /\ cs = <<>> => legal_words = words

\* C1, reached: one word kept, and one that fails the first of two constraints and
\* passes the second
C1_Witness ==
  /\ pc = "solved" /\ AllInRange(cs) /\ Len(cs) = 2
  /\ Len(legal_words) = 1 /\ Len(words) = 2
  /\ \E i \in 1..Len(words) : ~Holds(cs[1], words[i]) /\ Holds(cs[2], words[i])
  /\ \E i \in 1..Len(cs) : cs[i].kind = "present" /\ Len(cs[i].exclude_positions) > 1

\* C2: after filter, pruning and sort / unique the candidate list is the set
\* of corpus words that satisfy all constraints and are in the dictionary,
\* each once, in strictly increasing order; empty for an empty dictionary.
C2_CandidatesAreTheSortedSet ==
  pc = "pruned"
    => /\ StrictlyIncreasing(candidates)
       /\ Range(candidates) =
            {w \in Range(words) : HoldsAll(cs, w) /\ w \in Range(dictionary_words)}
       /\ dictionary_words = <<>> => candidates = <<>>

\* C2, reached: a repeated word collapses, and the survivors were out of order
C2_Witness ==
  /\ pc = "pruned" /\ cs # <<>>
  /\ Len(candidates) = 2 /\ Len(matched) = 3
  /\ LexLess(matched[2], matched[1])

\* C3 as stated: the best start word is the first corpus word of maximum
\* score.
C3_FirstOfTheBest ==
  (pc = "done" /\ words # <<>>) => best_word = FirstOfMaxScore

\* C3 amended: the best start word is a corpus word of maximum score.
C3_BestHasMaxScore ==
  (pc = "done" /\ words # <<>>)
    => /\ best_word \in Range(words)
       /\ \A i \in 1..Len(words) : score(words[i]) <= score(best_word)

\* C3, reached: two different words share the maximum
C3_Witness ==
  /\ pc = "done" /\ Len(words) >= 2
  /\ \E i, j \in 1..Len(words) :
       /\ words[i] # words[j]
       /\ score(words[i]) = MaxScore /\ score(words[j]) = MaxScore

\* C4 as stated: in both ranked lists candidates of equal key keep the
\* order they have in the sorted, deduplicated candidate list.
C4_TiesKeepCandidateOrder ==
  /\ pc \in {"ranked by letter", "ranked by freq", "reduce", "done"}
       => KeepsTieOrder(by_letter, score)
  /\ pc \in {"ranked by freq", "reduce", "done"}
       => KeepsTieOrder(by_freq, StoredFreq)

\* C5: each ranking is a permutation of the candidate list, non-increasing
\* in its key (score, and the frequency stored in the frequency map).
C5_RankingsArePermutationsInOrder ==
  /\ pc \in {"ranked by letter", "ranked by freq", "reduce", "done"}
       => IsPermutation(by_letter, candidates) /\ NonIncreasing(by_letter, score)
  /\ pc \in {"ranked by freq", "reduce", "done"}
       => IsPermutation(by_freq, candidates) /\ NonIncreasing(by_freq, StoredFreq)

\* C5, reached: both sorts moved something
C5_Witness ==
  /\ pc = "ranked by freq" /\ Len(candidates) = 3
  /\ by_letter # candidates /\ by_freq # by_letter /\ by_freq # candidates
  /\ \E i \in 1..2 : StoredFreq(by_freq[i]) > StoredFreq(by_freq[i + 1])

\* C6 as stated: solve never runs on a constraint with a position outside
\* [0, WordLen) (it was reported when built), and never subscripts a word
\* outside that range.
C6_PositionsAreChecked ==
  pc = "solved" => AllInRange(cs) /\ reads \subseteq 0..(WordLen - 1)

\* C7: score is the sum of the table weights of the distinct letters, so
\* words with the same set of letters have the same score.
C7_ScoreSumsDistinctLetters ==
  pc = "scored"
    => /\ value = WeightSum(Range(word_data))
       /\ \A w \in SeqsUpTo(Range(word_data), Len(word_data)) :
            Range(w) = Range(word_data) => score(w) = value

\* C7, reached: five letters, three of them distinct, two from one group of the table
C7_Witness ==
  /\ pc = "scored" /\ Len(word_data) = WordLen
  /\ Range(word_data) = {97, 101, 110}
  /\ value = 28000

\* C8: a constraint list never yields more candidates than the empty list,
\* and appending a constraint never adds a candidate.
C8_ConstraintsOnlyRemove ==
  pc = "pruned"
    => /\ Len(candidates) <= Len(Filter(words, <<>>, dict))
       /\ \A c \in AppendChoices :
            Range(Filter(words, Append(cs, c), dict)) \subseteq Range(candidates)

\* C8, reached: the constraints removed a word, and one more constraint removes another
C8_Witness ==
  /\ pc = "pruned" /\ cs # <<>>
  /\ candidates # <<>>
  /\ Len(candidates) < Len(Filter(words, <<>>, dict))
  /\ \E c \in AppendChoices :
       Len(Filter(words, Append(cs, c), dict)) < Len(candidates)

\* C9 as stated: with an empty corpus every step ends without error and
\* with an empty result, and nothing reads an element of an empty collection.
C9_EmptyCorpusIsHarmless ==
  words = <<>>
    => /\ pc # "crashed"
       /\ ub = {}
       /\ legal_words = <<>> /\ matched = <<>> /\ candidates = <<>>
       /\ by_letter = <<>> /\ by_freq = <<>> /\ best_word = <<>>

\* C10: validate accepts exactly the strings whose trimmed text is five
\* alphabetic characters, leaves that text in lowercase, and accepts its own
\* result unchanged.
C10_ValidateNormalises ==
  pc = "validated"
    => /\ accepted <=> /\ Len(Trimmed(raw)) = WordLen
                       /\ \A i \in 1..Len(Trimmed(raw)) : isalpha(Trimmed(raw)[i])
       /\ accepted => /\ word = Lowered(Trimmed(raw))
                      /\ validate(word) = [ok |-> TRUE, word |-> word]

\* C10, reached: white space at both ends and an uppercase letter
C10_Witness ==
  /\ pc = "validated" /\ accepted
  /\ Len(raw) = WordLen + 2 /\ raw[1] = 32 /\ raw[Len(raw)] = 32
  /\ \E i \in 1..Len(raw) : raw[i] = 65
  /\ word # Trimmed(raw)

====
